---------------------------- MODULE Spec2Model ----------------------------
(***************************************************************************)
(* Model of the basket-token vault program                                 *)
(* (programs/basket-token/src/lib.rs).                                     *)
(*                                                                         *)
(* The program keeps one BasketState record.  Its instruction handlers are *)
(* initialize, add_token, remove_token, set_paused, deposit, redeem and    *)
(* withdraw_authority_sol.  deposit and redeem hand control to the swap    *)
(* venue once per constituent ("leg"); the model splits these two handlers *)
(* at that call: the handler runs up to the call, the venue runs, the      *)
(* handler resumes.  All other handlers are one step.                      *)
(*                                                                         *)
(* An instruction that returns an error has no effect on any account: the  *)
(* ledger discards the writes of a failed instruction.  The model keeps    *)
(* the accounts as they were at the entry of an in-flight deposit/redeem   *)
(* in `saved` and restores them when the handler returns an error.         *)
(***************************************************************************)
EXTENDS Integers, Sequences, FiniteSets, TLC

(***************************************************************************)
(* Program constants                                                       *)
(***************************************************************************)
MAGNIFIER == 1000000000
MINIMUM_DEPOSIT == 10000000
MAX_TOKENS == 10
ACCOUNTS_PER_LEG == 12
U8_MAX == 255

(***************************************************************************)
(* Bounds of the model                                                     *)
(***************************************************************************)
\* Largest value of the program's 64-bit unsigned quantities in the model
\* (the width is reduced so that the checked arithmetic is exercised).
U64_MAX == 20000000
\* Most the venue ever adds to the ledger, lamports and custody tokens together.
MaxVenue == 1

(***************************************************************************)
(* Identities                                                              *)
(***************************************************************************)
Users == {"alice", "bob"}
BASKET == "basket"
BASKET_MINT == "basket_mint"
NOBODY == "default"

Mints == {"mintA", "mintB"}
Weights == {50, 60, 200}
MaxTokensChoices == {2, 11}
PayAmounts == {MINIMUM_DEPOSIT - 1, MINIMUM_DEPOSIT}
RedeemAmounts == {0, MINIMUM_DEPOSIT, 2 * MINIMUM_DEPOSIT}
WithdrawAmounts == {MINIMUM_DEPOSIT, 3 * MINIMUM_DEPOSIT}
MinChoices == {0, 1}
VenueLamports == {-1, 0, 1}
VenueTokens == {0, 1}
\* The deployer calls initialize; the other user holds the funds at the start.
Deployers == {"alice"}
StartLamports == [k \in Users \cup {BASKET} |->
                    IF k = "bob" THEN MINIMUM_DEPOSIT ELSE 0]

\* SPL token accounts a caller can put at index i*12+1 of a leg's block.
CustodyAccts == {"custodyA", "custodyB"}
LegAccts == CustodyAccts \cup {"aliceA"}

AcctMint(a) ==
    CASE a = "custodyA" -> "mintA"
      [] a = "custodyB" -> "mintB"
      [] a = "aliceA" -> "mintA"
      [] OTHER -> BASKET_MINT

AcctOwner(a) ==
    CASE a \in CustodyAccts -> BASKET
      [] a = "aliceA" -> "alice"
      [] OTHER -> a


(***************************************************************************)
(* State                                                                   *)
(***************************************************************************)
VARIABLES
    basket,      \* the BasketState record (and whether the account exists)
    lamports,    \* principal balance of the vault account and of each user
    claim,       \* claim-token balance of each user's user_basket_token
    mint_supply, \* total supply of the claim-token mint (basket_mint)
    custody,     \* token balance of each custody account
    pc,          \* "idle", or where the in-flight deposit/redeem stands
    cur,         \* the in-flight deposit/redeem: its arguments and locals
    saved,       \* the accounts as they were when the in-flight handler began
    last         \* the latest handler invocation and the result it returned

vars == <<basket, lamports, claim, mint_supply, custody, pc, cur, saved, last>>
accounts == <<basket, lamports, claim, mint_supply, custody>>

NoCall == [op |-> "none"]
NoSave == [op |-> "none"]

Snapshot ==
    [basket |-> basket, lamports |-> lamports, claim |-> claim,
     mint_supply |-> mint_supply, custody |-> custody]

\* The account named `authority`/`user` in an instruction is a signer: one of
\* the users.  The vault key is a program-derived address and signs nothing.
Init ==
    /\ basket = [initialized |-> FALSE, authority |-> NOBODY, tokens |-> <<>>,
                 total_supply |-> 0, max_tokens |-> 0, paused |-> FALSE,
                 reentrancy_guard |-> FALSE]
    /\ lamports = StartLamports
    /\ claim = [u \in Users |-> 0]
    /\ mint_supply = 0
    /\ custody = [a \in CustodyAccts |-> 0]
    /\ pc = "idle"
    /\ cur = NoCall
    /\ saved = NoSave
    /\ last = [op |-> "none", caller |-> NOBODY, res |-> "Ok", args |-> <<>>,
               lock |-> FALSE]

Returned(op, caller, res, args, lock) ==
    [op |-> op, caller |-> caller, res |-> res, args |-> args, lock |-> lock]

\* A one-step handler that returned an error: no account changes.
Rejected(op, caller, res, args) ==
    /\ last' = Returned(op, caller, res, args, basket.reentrancy_guard)
    /\ UNCHANGED <<accounts, pc, cur, saved>>

RECURSIVE SumWeights(_)
SumWeights(tokens) ==
    IF tokens = <<>> THEN 0
    ELSE Head(tokens).weight + SumWeights(Tail(tokens))

HasMint(tokens, m) == \E i \in 1..Len(tokens) : tokens[i].mint = m

\* position(): the first index holding the mint, 0 when there is none.
Position(tokens, m) ==
    IF HasMint(tokens, m)
    THEN CHOOSE i \in 1..Len(tokens) :
            /\ tokens[i].mint = m
            /\ \A j \in 1..(i - 1) : tokens[j].mint # m
    ELSE 0

\* Variant: the last entry is dropped, whatever i is.
RemoveAt_last(tokens, i) == SubSeq(tokens, 1, Len(tokens) - 1)

\* Vec::remove(i): the entries after i move down, order kept.
RemoveAt(tokens, i) ==
    [j \in 1..(Len(tokens) - 1) |-> IF j < i THEN tokens[j] ELSE tokens[j + 1]]

(***************************************************************************)
(* initialize                                                              *)
(***************************************************************************)
\* Variant: max_tokens is not compared with MAX_TOKENS.
initialize_result_unbounded(max_tokens) ==
    IF basket.initialized THEN "AccountAlreadyInUse" ELSE "Ok"

\* Variant: an existing record is initialized again (init_if_needed).
initialize_result_again(max_tokens) ==
    IF ~(max_tokens <= MAX_TOKENS) THEN "TooManyTokens" ELSE "Ok"

initialize_result(max_tokens) ==
    IF basket.initialized THEN "AccountAlreadyInUse"
    ELSE IF ~(max_tokens <= MAX_TOKENS) THEN "TooManyTokens"
    ELSE "Ok"

initialize(caller, max_tokens) ==
    LET res == initialize_result(max_tokens) IN
    /\ pc = "idle"
    /\ IF res = "Ok"
       THEN /\ basket' = [initialized |-> TRUE, authority |-> caller,
                          tokens |-> <<>>, total_supply |-> 0,
                          max_tokens |-> max_tokens, paused |-> FALSE,
                          reentrancy_guard |-> FALSE]
            /\ last' = Returned("initialize", caller, "Ok",
                                [max_tokens |-> max_tokens], FALSE)
            /\ UNCHANGED <<lamports, claim, mint_supply, custody, pc, cur, saved>>
       ELSE Rejected("initialize", caller, res, [max_tokens |-> max_tokens])

(***************************************************************************)
(* Account constraints shared by the authority-only instructions           *)
(***************************************************************************)
\* Variant: the account constraint does not compare the authority.
authority_constraint_no_has_one(caller) ==
    IF ~basket.initialized THEN "AccountNotInitialized" ELSE "Ok"

\* Account<BasketState>: the record must exist; has_one = authority.
authority_constraint(caller) ==
    IF ~basket.initialized THEN "AccountNotInitialized"
    ELSE IF basket.authority # caller THEN "Unauthorized"
    ELSE "Ok"

(***************************************************************************)
(* add_token                                                               *)
(***************************************************************************)
\* Variant: the addition wraps around instead of being checked.
total_weight_wrapping(tokens, weight) ==
    (SumWeights(tokens) + weight) % (U8_MAX + 1)

\* iter().map(|t| t.weight).sum::<u8>().checked_add(weight): -1 stands for None.
total_weight(tokens, weight) ==
    LET sum == SumWeights(tokens) % (U8_MAX + 1)
    IN IF sum + weight > U8_MAX THEN -1 ELSE sum + weight

\* Variant: the registry is not searched for the mint.
add_token_result_no_duplicate_check(caller, token_mint, weight) ==
    IF authority_constraint(caller) # "Ok" THEN authority_constraint(caller)
    ELSE IF basket.paused THEN "ProgramPaused"
    ELSE IF basket.authority # caller THEN "Unauthorized"
    ELSE IF ~(Len(basket.tokens) < basket.max_tokens) THEN "TooManyTokens"
    ELSE IF total_weight(basket.tokens, weight) = -1 THEN "WeightOverflow"
    ELSE IF ~(total_weight(basket.tokens, weight) <= 100) THEN "WeightOverflow"
    ELSE "Ok"

add_token_result(caller, token_mint, weight) ==
    IF authority_constraint(caller) # "Ok" THEN authority_constraint(caller)
    ELSE IF basket.paused THEN "ProgramPaused"
    ELSE IF basket.authority # caller THEN "Unauthorized"
    ELSE IF ~(Len(basket.tokens) < basket.max_tokens) THEN "TooManyTokens"
    ELSE IF total_weight(basket.tokens, weight) = -1 THEN "WeightOverflow"
    ELSE IF ~(total_weight(basket.tokens, weight) <= 100) THEN "WeightOverflow"
    ELSE IF HasMint(basket.tokens, token_mint) THEN "DuplicateToken"
    ELSE "Ok"

add_token(caller, token_mint, weight) ==
    LET res == add_token_result(caller, token_mint, weight)
        args == [token_mint |-> token_mint, weight |-> weight]
    IN
    /\ pc = "idle"
    /\ IF res = "Ok"
       THEN /\ basket' = [basket EXCEPT !.tokens =
                            Append(@, [mint |-> token_mint, weight |-> weight,
                                       token_account |-> NOBODY])]
            /\ last' = Returned("add_token", caller, "Ok", args, FALSE)
            /\ UNCHANGED <<lamports, claim, mint_supply, custody, pc, cur, saved>>
       ELSE Rejected("add_token", caller, res, args)

(***************************************************************************)
(* remove_token                                                            *)
(***************************************************************************)
\* Variant: remove_token does not look at the pause flag.
remove_token_result_no_pause(caller, token_mint) ==
    IF authority_constraint(caller) # "Ok" THEN authority_constraint(caller)
    ELSE IF Position(basket.tokens, token_mint) = 0 THEN "TokenNotFound"
    ELSE "Ok"

remove_token_result(caller, token_mint) ==
    IF authority_constraint(caller) # "Ok" THEN authority_constraint(caller)
    ELSE IF basket.paused THEN "ProgramPaused"
    ELSE IF basket.authority # caller THEN "Unauthorized"
    ELSE IF Position(basket.tokens, token_mint) = 0 THEN "TokenNotFound"
    ELSE "Ok"

remove_token(caller, token_mint) ==
    LET res == remove_token_result(caller, token_mint)
        args == [token_mint |-> token_mint]
    IN
    /\ pc = "idle"
    /\ IF res = "Ok"
       THEN /\ basket' = [basket EXCEPT !.tokens =
                            RemoveAt(@, Position(basket.tokens, token_mint))]
            /\ last' = Returned("remove_token", caller, "Ok", args, FALSE)
            /\ UNCHANGED <<lamports, claim, mint_supply, custody, pc, cur, saved>>
       ELSE Rejected("remove_token", caller, res, args)

(***************************************************************************)
(* set_paused                                                              *)
(***************************************************************************)
set_paused_result(caller) ==
    IF authority_constraint(caller) # "Ok" THEN authority_constraint(caller)
    ELSE IF basket.authority # caller THEN "Unauthorized"
    ELSE "Ok"

set_paused(caller, paused) ==
    LET res == set_paused_result(caller)
        args == [paused |-> paused]
    IN
    /\ pc = "idle"
    /\ IF res = "Ok"
       THEN /\ basket' = [basket EXCEPT !.paused = paused]
            /\ last' = Returned("set_paused", caller, "Ok", args, FALSE)
            /\ UNCHANGED <<lamports, claim, mint_supply, custody, pc, cur, saved>>
       ELSE Rejected("set_paused", caller, res, args)

(***************************************************************************)
(* withdraw_authority_sol                                                  *)
(***************************************************************************)
\* Variant: the withdrawal is refused while the lock is held.
withdraw_authority_sol_result_guarded(caller, amount) ==
    IF authority_constraint(caller) # "Ok" THEN authority_constraint(caller)
    ELSE IF basket.reentrancy_guard THEN "ReentrancyDetected"
    ELSE IF basket.authority # caller THEN "Unauthorized"
    ELSE IF ~(lamports[BASKET] >= amount) THEN "InsufficientBalance"
    ELSE "Ok"

withdraw_authority_sol_result(caller, amount) ==
    IF authority_constraint(caller) # "Ok" THEN authority_constraint(caller)
    ELSE IF basket.authority # caller THEN "Unauthorized"
    ELSE IF ~(lamports[BASKET] >= amount) THEN "InsufficientBalance"
    ELSE "Ok"

\* Variant: the withdrawal is booked against total_supply.
withdraw_authority_sol_booked(caller, amount) ==
    LET res == withdraw_authority_sol_result(caller, amount)
        args == [amount |-> amount]
    IN
    /\ pc = "idle"
    /\ IF res = "Ok"
       THEN /\ lamports' = [lamports EXCEPT ![BASKET] = @ - amount,
                                            ![caller] = @ + amount]
            /\ basket' = [basket EXCEPT !.total_supply =
                                           IF @ >= amount THEN @ - amount ELSE 0]
            /\ last' = Returned("withdraw_authority_sol", caller, "Ok", args,
                                basket.reentrancy_guard)
            /\ UNCHANGED <<claim, mint_supply, custody, pc, cur, saved>>
       ELSE Rejected("withdraw_authority_sol", caller, res, args)

withdraw_authority_sol(caller, amount) ==
    LET res == withdraw_authority_sol_result(caller, amount)
        args == [amount |-> amount]
    IN
    /\ pc = "idle"
    /\ IF res = "Ok"
       THEN /\ lamports' = [lamports EXCEPT ![BASKET] = @ - amount,
                                            ![caller] = @ + amount]
            /\ last' = Returned("withdraw_authority_sol", caller, "Ok", args,
                                basket.reentrancy_guard)
            /\ UNCHANGED <<basket, claim, mint_supply, custody, pc, cur, saved>>
       ELSE Rejected("withdraw_authority_sol", caller, res, args)

(***************************************************************************)
(* Widened arithmetic: (a * b) / c in u128, computed on quotient/remainder *)
(* pairs so that no intermediate value leaves TLC's 32-bit integers.      *)
(***************************************************************************)
\* <<q, r>> stands for q * c + r with 0 <= r < c.
DoubleQR(x, c) ==
    IF x[2] >= c - x[2] THEN <<2 * x[1] + 1, x[2] - (c - x[2])>>
    ELSE <<2 * x[1], 2 * x[2]>>

AddQR(x, y, c) ==
    IF x[2] >= c - y[2] THEN <<x[1] + y[1] + 1, x[2] - (c - y[2])>>
    ELSE <<x[1] + y[1], x[2] + y[2]>>

RECURSIVE MulQR(_, _, _)
MulQR(a, b, c) ==
    IF a = 0 THEN <<0, 0>>
    ELSE LET d == DoubleQR(MulQR(a \div 2, b, c), c)
         IN IF a % 2 = 1 THEN AddQR(d, <<b \div c, b % c>>, c) ELSE d

\* checked_mul(b) then checked_div(c) on u128 operands that came from u64:
\* the product cannot overflow; the division fails (-1) when c is zero.
DivFails(c) == c = 0
MulDiv(a, b, c) == IF DivFails(c) THEN -1 ELSE MulQR(a, b, c)[1]

(***************************************************************************)
(* deposit and redeem: entry                                               *)
(***************************************************************************)
\* What `last` keeps of the arguments of a call that returned an error before
\* its first leg: the amount, the number of trailing accounts and the number
\* of minimums (all the arguments are kept once a leg is run).
Brief(args) ==
    [amount |-> args.amount, nacc |-> args.nacc,
     nmins |-> IF "mins" \in DOMAIN args THEN Len(args.mins) ELSE 0]

Call(op, caller, args) ==
    [op |-> op, caller |-> caller, args |-> args, i |-> 0, in_amount |-> 0,
     initial_lamports |-> 0, total_sol_received |-> 0, redemption_ratio |-> 0]

\* The handler returned an error: the accounts are as they were at its entry.
Failed(sv, c, res, lock) ==
    /\ basket' = sv.basket
    /\ lamports' = sv.lamports
    /\ claim' = sv.claim
    /\ mint_supply' = sv.mint_supply
    /\ custody' = sv.custody
    /\ pc' = "idle"
    /\ cur' = NoCall
    /\ saved' = NoSave
    /\ last' = Returned(c.op, c.caller, res, c.args, lock)

\* The handler returned Ok: the accounts it wrote are kept.
Succeeded(w, c) ==
    /\ basket' = w.basket
    /\ lamports' = w.lamports
    /\ claim' = w.claim
    /\ mint_supply' = w.mint_supply
    /\ custody' = w.custody
    /\ pc' = "idle"
    /\ cur' = NoCall
    /\ saved' = NoSave
    /\ last' = Returned(c.op, c.caller, "Ok", c.args, w.basket.reentrancy_guard)

\* Variant: deposit does not look at the lock.
deposit_checks_no_guard(amount, minimum_token_amounts) ==
    IF ~basket.initialized THEN "AccountNotInitialized"
    ELSE IF basket.paused THEN "ProgramPaused"
    ELSE IF ~(amount >= MINIMUM_DEPOSIT) THEN "InsufficientDeposit"
    ELSE IF Len(minimum_token_amounts) # Len(basket.tokens) THEN "InvalidTokenCount"
    ELSE "Ok"

\* Variant: the floor is exclusive (amount > MINIMUM_DEPOSIT).
deposit_checks_exclusive_floor(amount, minimum_token_amounts) ==
    IF ~basket.initialized THEN "AccountNotInitialized"
    ELSE IF basket.paused THEN "ProgramPaused"
    ELSE IF basket.reentrancy_guard THEN "ReentrancyDetected"
    ELSE IF ~(amount > MINIMUM_DEPOSIT) THEN "InsufficientDeposit"
    ELSE IF Len(minimum_token_amounts) # Len(basket.tokens) THEN "InvalidTokenCount"
    ELSE "Ok"

\* Variant: the number of minimums is not compared with the registry.
deposit_checks_no_token_count(amount, minimum_token_amounts) ==
    IF ~basket.initialized THEN "AccountNotInitialized"
    ELSE IF basket.paused THEN "ProgramPaused"
    ELSE IF basket.reentrancy_guard THEN "ReentrancyDetected"
    ELSE IF ~(amount >= MINIMUM_DEPOSIT) THEN "InsufficientDeposit"
    ELSE "Ok"

\* deposit, up to and including "Set reentrancy guard".
deposit_checks(amount, minimum_token_amounts) ==
    IF ~basket.initialized THEN "AccountNotInitialized"
    ELSE IF basket.paused THEN "ProgramPaused"
    ELSE IF basket.reentrancy_guard THEN "ReentrancyDetected"
    ELSE IF ~(amount >= MINIMUM_DEPOSIT) THEN "InsufficientDeposit"
    ELSE IF Len(minimum_token_amounts) # Len(basket.tokens) THEN "InvalidTokenCount"
    ELSE "Ok"

\* Variant: more trailing accounts than needed are accepted.
deposit_effects_result_at_least(caller, amount, nacc) ==
    IF nacc < Len(basket.tokens) * ACCOUNTS_PER_LEG THEN "InvalidAccountCount"
    ELSE IF lamports[caller] < amount THEN "InsufficientFunds"
    ELSE IF basket.total_supply + amount > U64_MAX THEN "MathOverflow"
    ELSE IF mint_supply + amount > U64_MAX THEN "TokenOverflow"
    ELSE "Ok"

\* Variant: the result of the transfer from the caller is ignored.
deposit_effects_result_transfer_unchecked(caller, amount, nacc) ==
    IF nacc # Len(basket.tokens) * ACCOUNTS_PER_LEG THEN "InvalidAccountCount"
    ELSE IF basket.total_supply + amount > U64_MAX THEN "MathOverflow"
    ELSE IF mint_supply + amount > U64_MAX THEN "TokenOverflow"
    ELSE "Ok"

\* Variant: the addition to total_supply is not checked.
deposit_effects_result_unchecked_add(caller, amount, nacc) ==
    IF nacc # Len(basket.tokens) * ACCOUNTS_PER_LEG THEN "InvalidAccountCount"
    ELSE IF lamports[caller] < amount THEN "InsufficientFunds"
    ELSE IF mint_supply + amount > U64_MAX THEN "TokenOverflow"
    ELSE "Ok"

\* deposit, from the account-count check to the mint of the claim tokens.
deposit_effects_result(caller, amount, nacc) ==
    IF nacc # Len(basket.tokens) * ACCOUNTS_PER_LEG THEN "InvalidAccountCount"
    ELSE IF lamports[caller] < amount THEN "InsufficientFunds"
    ELSE IF basket.total_supply + amount > U64_MAX THEN "MathOverflow"
    ELSE IF mint_supply + amount > U64_MAX THEN "TokenOverflow"
    ELSE "Ok"

\* Variant: the claim tokens are minted but total_supply is not updated.
deposit_effects_no_supply(caller, amount) ==
    [basket |-> [basket EXCEPT !.reentrancy_guard = TRUE],
     lamports |-> [lamports EXCEPT ![caller] = @ - amount, ![BASKET] = @ + amount],
     claim |-> [claim EXCEPT ![caller] = @ + amount],
     mint_supply |-> mint_supply + amount,
     custody |-> custody]

\* Variant: the claim tokens minted are scaled by the registry's weight sum.
deposit_effects_by_weight(caller, amount) ==
    LET minted == (amount * SumWeights(basket.tokens)) \div 100 IN
    [basket |-> [basket EXCEPT !.reentrancy_guard = TRUE,
                               !.total_supply = @ + minted],
     lamports |-> [lamports EXCEPT ![caller] = @ - amount, ![BASKET] = @ + amount],
     claim |-> [claim EXCEPT ![caller] = @ + minted],
     mint_supply |-> mint_supply + minted,
     custody |-> custody]

\* Variant: the claim tokens are minted after the swap legs, not before them.
deposit_effects_mint_deferred(caller, amount) ==
    [basket |-> [basket EXCEPT !.reentrancy_guard = TRUE,
                               !.total_supply = @ + amount],
     lamports |-> [lamports EXCEPT ![caller] = @ - amount, ![BASKET] = @ + amount],
     claim |-> claim,
     mint_supply |-> mint_supply,
     custody |-> custody]

\* The accounts after the transfer, the supply update and the mint.
deposit_effects(caller, amount) ==
    [basket |-> [basket EXCEPT !.reentrancy_guard = TRUE,
                               !.total_supply = @ + amount],
     lamports |-> [lamports EXCEPT ![caller] = @ - amount, ![BASKET] = @ + amount],
     claim |-> [claim EXCEPT ![caller] = @ + amount],
     mint_supply |-> mint_supply + amount,
     custody |-> custody]

\* redeem, up to and including "Set reentrancy guard".
redeem_checks ==
    IF ~basket.initialized THEN "AccountNotInitialized"
    ELSE IF basket.paused THEN "ProgramPaused"
    ELSE IF basket.reentrancy_guard THEN "ReentrancyDetected"
    ELSE "Ok"

\* Variant: a zero supply gives a zero ratio instead of an error.
redeem_effects_result_zero_ratio(caller, amount, nacc) ==
    IF nacc # Len(basket.tokens) * ACCOUNTS_PER_LEG THEN "InvalidAccountCount"
    ELSE IF basket.total_supply < amount THEN "MathOverflow"
    ELSE IF claim[caller] < amount THEN "InsufficientFunds"
    ELSE "Ok"

\* redeem, from the account-count check to the burn of the claim tokens.
redeem_effects_result(caller, amount, nacc) ==
    IF nacc # Len(basket.tokens) * ACCOUNTS_PER_LEG THEN "InvalidAccountCount"
    ELSE IF DivFails(basket.total_supply) THEN "MathOverflow"
    ELSE IF basket.total_supply < amount THEN "MathOverflow"
    ELSE IF claim[caller] < amount THEN "InsufficientFunds"
    ELSE "Ok"

\* Variant: total_supply is lowered but no claim token is burned.
redeem_effects_no_burn(caller, amount) ==
    [basket |-> [basket EXCEPT !.reentrancy_guard = TRUE,
                               !.total_supply = @ - amount],
     lamports |-> lamports,
     claim |-> claim,
     mint_supply |-> mint_supply,
     custody |-> custody]

\* The accounts after the supply update and the burn.
redeem_effects(caller, amount) ==
    [basket |-> [basket EXCEPT !.reentrancy_guard = TRUE,
                               !.total_supply = @ - amount],
     lamports |-> lamports,
     claim |-> [claim EXCEPT ![caller] = @ - amount],
     mint_supply |-> mint_supply - amount,
     custody |-> custody]

(***************************************************************************)
(* deposit and redeem: the swap legs                                       *)
(***************************************************************************)
\* The token account a leg validates and reads its balance from.
\* deposit: remaining_accounts[i * 12 + 1]; redeem: ctx.accounts.user_basket_token.
leg_token_account(c, i) ==
    IF c.op = "deposit" THEN c.args.accts[i] ELSE c.caller

leg_token_amount(w, c, i) ==
    IF c.op = "deposit" THEN w.custody[c.args.accts[i]] ELSE w.claim[c.caller]

leg_validation(w, c, i) ==
    LET a == leg_token_account(c, i) IN
    IF AcctMint(a) # w.basket.tokens[i].mint THEN "InvalidTokenMint"
    ELSE IF AcctOwner(a) # BASKET THEN "InvalidTokenOwner"
    ELSE "Ok"

\* in_amount of the leg's RouteSwapParams.
leg_in_amount(w, c, i) ==
    IF c.op = "deposit" THEN leg_token_amount(w, c, i)
    ELSE MulDiv(leg_token_amount(w, c, i), c.redemption_ratio, MAGNIFIER)
            % (U64_MAX + 1)

\* Variant: the total received is not compared with minimum_sol_amount.
finish_result_no_slippage(w, c) ==
    IF c.op = "deposit" THEN "Ok"
    ELSE IF w.lamports[BASKET] < c.total_sol_received THEN "ArithmeticOverflow"
    ELSE IF w.lamports[c.caller] + c.total_sol_received > U64_MAX
         THEN "ArithmeticOverflow"
    ELSE "Ok"

\* After the last leg: redeem checks the total and pays it out; both clear the lock.
finish_result(w, c) ==
    IF c.op = "deposit" THEN "Ok"
    ELSE IF ~(c.total_sol_received >= c.args.minimum_sol_amount)
         THEN "SlippageExceeded"
    ELSE IF w.lamports[BASKET] < c.total_sol_received THEN "ArithmeticOverflow"
    ELSE IF w.lamports[c.caller] + c.total_sol_received > U64_MAX
         THEN "ArithmeticOverflow"
    ELSE "Ok"

\* Variant: the lock is not cleared on the way out.
clear_guard_forgotten(b) == b

clear_guard(b) == [b EXCEPT !.reentrancy_guard = FALSE]

\* Variant: redeem pays the caller the redeemed amount out of the vault's own
\* lamports when the vault has them.
finish_effects_pays_principal(w, c) ==
    LET paid == IF c.op = "redeem" /\ w.lamports[BASKET] >= c.args.amount
                THEN c.args.amount ELSE 0
    IN [w EXCEPT !.basket = clear_guard(@),
                 !.lamports = [@ EXCEPT ![BASKET] = @ - paid,
                                        ![c.caller] = @ + paid]]

finish_effects(w, c) ==
    [w EXCEPT !.basket = clear_guard(@),
              !.lamports = IF c.op = "deposit" THEN @
                           ELSE [@ EXCEPT ![BASKET] = @ - c.total_sol_received,
                                          ![c.caller] = @ + c.total_sol_received]]

\* Run the handler from the top of leg i until it calls the venue or returns.
Proceed(w, c, sv, i) ==
    IF i > Len(w.basket.tokens)
    THEN IF finish_result(w, c) = "Ok"
         THEN Succeeded(finish_effects(w, c), c)
         ELSE Failed(sv, c, finish_result(w, c), TRUE)
    ELSE IF leg_validation(w, c, i) # "Ok"
    THEN Failed(sv, c, leg_validation(w, c, i), TRUE)
    ELSE /\ basket' = w.basket
         /\ lamports' = w.lamports
         /\ claim' = w.claim
         /\ mint_supply' = w.mint_supply
         /\ custody' = w.custody
         /\ pc' = "venue"
         /\ cur' = [c EXCEPT !.i = i, !.in_amount = leg_in_amount(w, c, i)]
         /\ saved' = sv
         /\ last' = Returned(c.op, c.caller, "Pending", c.args, TRUE)

deposit(caller, amount, minimum_token_amounts, nacc, accts) ==
    LET args == [amount |-> amount, mins |-> minimum_token_amounts,
                 nacc |-> nacc, accts |-> accts]
        c == Call("deposit", caller, args)
        w == deposit_effects(caller, amount)
    IN
    /\ pc = "idle"
    /\ IF deposit_checks(amount, minimum_token_amounts) # "Ok"
       THEN Rejected("deposit", caller,
                     deposit_checks(amount, minimum_token_amounts), Brief(args))
       ELSE IF deposit_effects_result(caller, amount, nacc) # "Ok"
       THEN Failed(Snapshot, [c EXCEPT !.args = Brief(args)],
                   deposit_effects_result(caller, amount, nacc), TRUE)
       ELSE Proceed(w, [c EXCEPT !.initial_lamports = w.lamports[BASKET]],
                    Snapshot, 1)

redeem(caller, amount, minimum_sol_amount, nacc, accts) ==
    LET args == [amount |-> amount, minimum_sol_amount |-> minimum_sol_amount,
                 nacc |-> nacc, accts |-> accts]
        c == Call("redeem", caller, args)
        w == redeem_effects(caller, amount)
    IN
    /\ pc = "idle"
    /\ IF redeem_checks # "Ok"
       THEN Rejected("redeem", caller, redeem_checks, Brief(args))
       ELSE IF redeem_effects_result(caller, amount, nacc) # "Ok"
       THEN Failed(Snapshot, [c EXCEPT !.args = Brief(args)],
                   redeem_effects_result(caller, amount, nacc), TRUE)
       ELSE Proceed(w, [c EXCEPT !.initial_lamports = w.lamports[BASKET],
                                 !.redemption_ratio =
                                    MulDiv(amount, MAGNIFIER, basket.total_supply)],
                    Snapshot, 1)

(***************************************************************************)
(* The venue, called once per leg                                          *)
(***************************************************************************)
Total(f, keys) ==
    LET RECURSIVE Sum(_)
        Sum(S) == IF S = {} THEN 0
                  ELSE LET k == CHOOSE x \in S : TRUE IN f[k] + Sum(S \ {k})
    IN Sum(keys)

\* What the venue has added to the ledger so far.
VenueAdded(l, t) ==
    (Total(l, DOMAIN l) - Total(StartLamports, DOMAIN StartLamports))
    + Total(t, DOMAIN t)

\* The venue completes the leg's swap: it moves `dl` lamports into (or out of)
\* the vault account and `dt` tokens into (deposit) or out of (redeem) the
\* custody account of the leg's block.
venue_swap(dl, dt) ==
    LET a == cur.args.accts[cur.i]
        t == IF a \in CustodyAccts
             THEN custody[a] + (IF cur.op = "deposit" THEN dt ELSE 0 - dt)
             ELSE 0
        l == [lamports EXCEPT ![BASKET] = @ + dl]
        k == [x \in CustodyAccts |-> IF x = a THEN t ELSE custody[x]]
    IN
    /\ pc = "venue"
    /\ l[BASKET] >= 0
    /\ t >= 0
    /\ VenueAdded(l, k) <= MaxVenue
    /\ lamports' = l
    /\ custody' = k
    /\ pc' = "returned"
    /\ UNCHANGED <<basket, claim, mint_supply, cur, saved, last>>

\* The venue returns an error: invoke(...)? returns it from the handler.
venue_abort ==
    /\ pc = "venue"
    /\ Failed(saved, cur, "VenueError", TRUE)

\* Variant: deposit does not compare the measured output with the minimum.
leg_result_no_slippage(c) ==
    IF c.op = "deposit"
    THEN IF lamports[BASKET] < c.initial_lamports THEN "MathOverflow" ELSE "Ok"
    ELSE IF c.initial_lamports + c.total_sol_received > U64_MAX
         THEN "ArithmeticOverflow"
         ELSE IF lamports[BASKET] < c.initial_lamports + c.total_sol_received
              THEN "MathOverflow"
         ELSE "Ok"

\* The code after invoke(): measure the leg, then go on to the next leg.
leg_result(c) ==
    IF c.op = "deposit"
    THEN IF lamports[BASKET] < c.initial_lamports THEN "MathOverflow"
         ELSE IF ~(lamports[BASKET] - c.initial_lamports >= c.args.mins[c.i])
              THEN "SlippageExceeded"
         ELSE "Ok"
    ELSE IF c.initial_lamports + c.total_sol_received > U64_MAX
         THEN "ArithmeticOverflow"
         ELSE IF lamports[BASKET] < c.initial_lamports + c.total_sol_received
              THEN "MathOverflow"
         ELSE "Ok"

leg_locals(c) ==
    IF c.op = "deposit"
    THEN [c EXCEPT !.initial_lamports = lamports[BASKET]]
    ELSE [c EXCEPT !.total_sol_received =
                      @ + (lamports[BASKET] - (c.initial_lamports + @))]

resume ==
    /\ pc = "returned"
    /\ IF leg_result(cur) # "Ok"
       THEN Failed(saved, cur, leg_result(cur), TRUE)
       ELSE Proceed(Snapshot, leg_locals(cur), saved, cur.i + 1)

(***************************************************************************)
(* deposit or redeem invoked again while the venue has control             *)
(***************************************************************************)
\* A nested invocation that its own checks do not reject runs on the record
\* as the outer handler left it; its legs are not followed further.
nested_deposit(caller, amount, minimum_token_amounts, nacc, accts) ==
    LET args == [amount |-> amount, mins |-> minimum_token_amounts,
                 nacc |-> nacc, accts |-> accts]
        w == deposit_effects(caller, amount)
    IN
    /\ pc = "venue"
    /\ IF deposit_checks(amount, minimum_token_amounts) # "Ok"
       THEN Rejected("nested_deposit", caller,
                     deposit_checks(amount, minimum_token_amounts), Brief(args))
       ELSE IF deposit_effects_result(caller, amount, nacc) # "Ok"
       THEN Rejected("nested_deposit", caller,
                     deposit_effects_result(caller, amount, nacc), Brief(args))
       ELSE /\ basket' = w.basket
            /\ lamports' = w.lamports
            /\ claim' = w.claim
            /\ mint_supply' = w.mint_supply
            /\ last' = Returned("nested_deposit", caller, "Pending", args, TRUE)
            /\ UNCHANGED <<custody, pc, cur, saved>>

nested_redeem(caller, amount, minimum_sol_amount, nacc, accts) ==
    LET args == [amount |-> amount, minimum_sol_amount |-> minimum_sol_amount,
                 nacc |-> nacc, accts |-> accts]
        w == redeem_effects(caller, amount)
    IN
    /\ pc = "venue"
    /\ IF redeem_checks # "Ok"
       THEN Rejected("nested_redeem", caller, redeem_checks, Brief(args))
       ELSE IF redeem_effects_result(caller, amount, nacc) # "Ok"
       THEN Rejected("nested_redeem", caller,
                     redeem_effects_result(caller, amount, nacc), Brief(args))
       ELSE /\ basket' = w.basket
            /\ claim' = w.claim
            /\ mint_supply' = w.mint_supply
            /\ last' = Returned("nested_redeem", caller, "Pending", args, TRUE)
            /\ UNCHANGED <<lamports, custody, pc, cur, saved>>

\* withdraw_authority_sol looks at neither the pause flag nor the lock, so it
\* runs the same way when it is invoked while the venue has control.
nested_withdraw_authority_sol(caller, amount) ==
    LET res == withdraw_authority_sol_result(caller, amount)
        args == [amount |-> amount]
    IN
    /\ pc = "venue"
    /\ IF res = "Ok"
       THEN /\ lamports' = [lamports EXCEPT ![BASKET] = @ - amount,
                                            ![caller] = @ + amount]
            /\ last' = Returned("nested_withdraw_authority_sol", caller, "Ok",
                                args, basket.reentrancy_guard)
            /\ UNCHANGED <<basket, claim, mint_supply, custody, pc, cur, saved>>
       ELSE Rejected("nested_withdraw_authority_sol", caller, res, args)

(***************************************************************************)
(* Inputs and the next-state relation                                      *)
(***************************************************************************)
Legs == 1..Len(basket.tokens)

CustodyOf(m) == IF m = "mintA" THEN "custodyA" ELSE "custodyB"

\* Every leg's block holding the custody account of the leg's constituent.
RightAccts == [i \in Legs |-> CustodyOf(basket.tokens[i].mint)]
RightNacc == Len(basket.tokens) * ACCOUNTS_PER_LEG
ZeroMins(n) == [i \in 1..n |-> 0]

\* What a caller passes for the legs: well-formed inputs with every choice of
\* the minimums, and inputs with one thing wrong: another token account in one
\* leg's block, one minimum too many, one account fewer or more.
LegInputs ==
    {[mins |-> m, nacc |-> RightNacc, accts |-> RightAccts] :
        m \in [Legs -> MinChoices]}
    \cup {[mins |-> ZeroMins(Len(basket.tokens)), nacc |-> RightNacc,
           accts |-> [RightAccts EXCEPT ![i] = a]] : i \in Legs, a \in LegAccts}
    \cup {[mins |-> ZeroMins(Len(basket.tokens) + 1), nacc |-> RightNacc,
           accts |-> RightAccts]}
    \cup {[mins |-> ZeroMins(Len(basket.tokens)), nacc |-> n,
           accts |-> RightAccts] : n \in {RightNacc - 1, RightNacc + 1} \ {-1}}

\* redeem takes no per-leg minimums and reads no token account of a block:
\* the blocks are right, and the number of accounts is right or one off.
RedeemLegInputs ==
    {x \in LegInputs : /\ x.mins = ZeroMins(Len(basket.tokens))
                       /\ x.accts = RightAccts}

\* The one well-formed input with every minimum zero.
PlainLegInput ==
    [mins |-> ZeroMins(Len(basket.tokens)), nacc |-> RightNacc, accts |-> RightAccts]

\* An amount below the floor comes with the plain input only; so does a redeem
\* of another amount than MINIMUM_DEPOSIT or with a positive minimum.
DepositLegInputs(amount) ==
    IF amount < MINIMUM_DEPOSIT THEN {PlainLegInput} ELSE LegInputs

RedeemLegInputsFor(amount, minimum_sol_amount) ==
    IF amount = MINIMUM_DEPOSIT /\ minimum_sol_amount = 0
    THEN RedeemLegInputs ELSE {PlainLegInput}

\* The venue can pass on the signature of the caller of the handler in flight.
NestedCallers == {cur.caller}
NestedAmounts == {MINIMUM_DEPOSIT}

Next ==
    \/ \E caller \in Deployers, max_tokens \in MaxTokensChoices :
          initialize(caller, max_tokens)
    \/ \E caller \in Users, token_mint \in Mints, weight \in Weights :
          add_token(caller, token_mint, weight)
    \/ \E caller \in Users, token_mint \in Mints :
          remove_token(caller, token_mint)
    \/ \E caller \in Users, paused \in BOOLEAN :
          set_paused(caller, paused)
    \/ \E caller \in Users, amount \in WithdrawAmounts :
          withdraw_authority_sol(caller, amount)
    \/ \E caller \in Users, amount \in PayAmounts :
          \E x \in DepositLegInputs(amount) :
             deposit(caller, amount, x.mins, x.nacc, x.accts)
    \/ \E caller \in Users, amount \in RedeemAmounts, min_sol \in MinChoices :
          \E x \in RedeemLegInputsFor(amount, min_sol) :
             redeem(caller, amount, min_sol, x.nacc, x.accts)
    \/ \E dl \in VenueLamports, dt \in VenueTokens : venue_swap(dl, dt)
    \/ venue_abort
    \/ resume
    \/ \E amount \in NestedAmounts :
          /\ pc = "venue"
          /\ \E caller \in NestedCallers :
                nested_deposit(caller, amount, ZeroMins(Len(basket.tokens)),
                               RightNacc, RightAccts)
    \/ \E amount \in NestedAmounts :
          /\ pc = "venue"
          /\ \E caller \in NestedCallers :
                nested_redeem(caller, amount, 0, RightNacc, RightAccts)
    \/ \E amount \in NestedAmounts :
          /\ pc = "venue"
          /\ \E caller \in NestedCallers :
                nested_withdraw_authority_sol(caller, amount)

Spec == Init /\ [][Next]_vars

(***************************************************************************)
(* Properties                                                              *)
(***************************************************************************)
\* The accounts as they were before the handler that the step belongs to began.
Pre == IF pc = "idle" THEN Snapshot ELSE saved

\* A step that ends a handler invocation (or the only step of one).
Returns(op) == pc' = "idle" /\ last'.op = op

AccountsRestored ==
    /\ basket' = Pre.basket
    /\ lamports' = Pre.lamports
    /\ claim' = Pre.claim
    /\ mint_supply' = Pre.mint_supply
    /\ custody' = Pre.custody

\* C1: the weights of the registry entries sum to at most 100 in every
\* reachable state; an add_token whose weight would take the sum over 100
\* does not succeed and leaves the registry unchanged, and the error is
\* WeightOverflow whenever the call gets as far as the weight check (the
\* caller is the authority, the vault is not paused, the registry is not full).
C1_WeightStep ==
    (pc = "idle" /\ Returns("add_token")
       /\ SumWeights(basket.tokens) + last'.args.weight > 100)
    => /\ last'.res # "Ok"
       /\ basket'.tokens = basket.tokens
       /\ (/\ basket.initialized
           /\ last'.caller = basket.authority
           /\ ~basket.paused
           /\ Len(basket.tokens) < basket.max_tokens) => last'.res = "WeightOverflow"

C1_WeightSum ==
    /\ [](SumWeights(basket.tokens) <= 100)
    /\ [][C1_WeightStep]_vars

C1_Witness ==
    /\ last.op = "add_token"
    /\ last.res = "WeightOverflow"
    /\ last.args.weight = 50
    /\ SumWeights(basket.tokens) = 60

\* C2: between operations the supply of the claim-token mint equals
\* total_supply; a deposit that returns Ok raises both by its amount, a redeem
\* that returns Ok lowers both by its amount, and an invocation that returns
\* an error leaves both as they were before it.
C2_SupplyStep ==
    /\ (Returns("deposit") /\ last'.res = "Ok")
       => /\ basket'.total_supply = Pre.basket.total_supply + last'.args.amount
          /\ mint_supply' = Pre.mint_supply + last'.args.amount
    /\ (Returns("redeem") /\ last'.res = "Ok")
       => /\ basket'.total_supply = Pre.basket.total_supply - last'.args.amount
          /\ mint_supply' = Pre.mint_supply - last'.args.amount
    /\ (pc' = "idle" /\ last'.res # "Ok")
       => /\ basket'.total_supply = Pre.basket.total_supply
          /\ mint_supply' = Pre.mint_supply

C2_SupplyMatchesLedger ==
    /\ [](pc = "idle" => mint_supply = basket.total_supply)
    /\ [][C2_SupplyStep]_vars

C2_Witness ==
    /\ pc = "idle"
    /\ last.op = "redeem"
    /\ last.res = "Ok"
    /\ last.args.amount = MINIMUM_DEPOSIT
    /\ basket.total_supply = MINIMUM_DEPOSIT
    /\ mint_supply = MINIMUM_DEPOSIT

\* C3: while the venue has control of a leg the lock is held, and a deposit
\* or redeem invoked then returns ReentrancyDetected and changes no account
\* and nothing of the handler in flight.
C3_NestedStep ==
    (pc = "venue" /\ pc' = "venue" /\ last'.op # "nested_withdraw_authority_sol")
    => /\ basket.reentrancy_guard
       /\ last'.op \in {"nested_deposit", "nested_redeem"}
       /\ last'.res = "ReentrancyDetected"
       /\ UNCHANGED <<basket, lamports, claim, mint_supply, custody, cur, saved>>

C3_NestedCallRejected == [][C3_NestedStep]_vars

C3_Witness ==
    /\ pc = "venue"
    /\ last.op = "nested_redeem"
    /\ last.res = "ReentrancyDetected"
    /\ basket.reentrancy_guard

\* C4 (as claimed): a redeem of a positive amount the caller holds, from a
\* vault with at least one constituent, with the right number of accounts and
\* every leg's block holding that constituent's custody account, passes the
\* validation of its first leg and hands that leg to the venue.
C4_RedeemWithLegsReachesVenue ==
    [][(/\ pc = "idle"
        /\ last'.op = "redeem"
        /\ Len(basket.tokens) >= 1
        /\ last'.args.amount > 0
        /\ last'.args.amount <= claim[last'.caller]
        /\ "accts" \in DOMAIN last'.args
        /\ last'.args.accts = RightAccts
        /\ last'.args.nacc = RightNacc)
       => pc' = "venue"]_vars

\* C5 (as claimed): a deposit or redeem is rejected with InvalidTokenMint or
\* InvalidTokenOwner only if some leg's block holds a token account of another
\* asset than the leg's constituent or of another owner than the vault.
C5_LegValidatesBlockAccount ==
    [][(/\ pc' = "idle"
        /\ last'.op \in {"deposit", "redeem"}
        /\ last'.res \in {"InvalidTokenMint", "InvalidTokenOwner"})
       => \E i \in 1..Len(Pre.basket.tokens) :
             \/ AcctMint(last'.args.accts[i]) # Pre.basket.tokens[i].mint
             \/ AcctOwner(last'.args.accts[i]) # BASKET]_vars

\* C6: when the venue has returned from a deposit leg and the increase the
\* handler measures is below the leg's minimum, the deposit returns
\* SlippageExceeded and every account (total_supply, the caller's claim tokens
\* and lamports, the vault's balances) is as it was before the deposit.
C6_DepositSlippageStep ==
    (/\ pc = "returned"
     /\ cur.op = "deposit"
     /\ lamports[BASKET] >= cur.initial_lamports
     /\ lamports[BASKET] - cur.initial_lamports < cur.args.mins[cur.i])
    => /\ Returns("deposit")
       /\ last'.res = "SlippageExceeded"
       /\ AccountsRestored
       /\ basket'.total_supply + cur.args.amount = basket.total_supply
       /\ claim'[cur.caller] + cur.args.amount = claim[cur.caller]
       /\ lamports'[cur.caller] = lamports[cur.caller] + cur.args.amount

C6_DepositSlippageRollsBack == [][C6_DepositSlippageStep]_vars

C6_Witness ==
    /\ pc = "idle"
    /\ last.op = "deposit"
    /\ last.res = "SlippageExceeded"
    /\ last.args.mins[1] = 1
    /\ basket.total_supply = 0
    /\ claim[last.caller] = 0

\* C7: when a redeem has run all its legs and the total it received is below
\* minimum_sol_amount, it returns SlippageExceeded, the caller is paid nothing
\* and the burn and the total_supply decrease are undone.
RedeemTotalAtFinish ==
    IF pc = "idle" THEN 0 ELSE leg_locals(cur).total_sol_received

RedeemRunsAllLegs ==
    /\ Returns("redeem")
    /\ "accts" \in DOMAIN last'.args
    /\ \/ pc = "idle" /\ Len(basket.tokens) = 0
       \/ pc = "returned" /\ cur.i = Len(basket.tokens) /\ leg_result(cur) = "Ok"

C7_RedeemSlippageStep ==
    (RedeemRunsAllLegs /\ RedeemTotalAtFinish < last'.args.minimum_sol_amount)
    => /\ last'.res = "SlippageExceeded"
       /\ AccountsRestored

C7_RedeemSlippageRollsBack == [][C7_RedeemSlippageStep]_vars

C7_Witness ==
    /\ pc = "idle"
    /\ last.op = "redeem"
    /\ last.res = "SlippageExceeded"
    /\ last.args.amount = MINIMUM_DEPOSIT
    /\ last.args.minimum_sol_amount = 1
    /\ claim[last.caller] >= MINIMUM_DEPOSIT

\* C8 (as amended): while paused, every deposit and redeem returns
\* ProgramPaused, every add_token and remove_token returns ProgramPaused when
\* the caller is the authority and Unauthorized otherwise, and none of them
\* changes an account; withdraw_authority_sol by the authority of at most the
\* vault's balance and set_paused by the authority return Ok; no other
\* instruction, and none while not paused, returns ProgramPaused.
PauseGated == {"deposit", "redeem", "add_token", "remove_token"}

C8_UngatedStep ==
    /\ (/\ Returns("withdraw_authority_sol")
        /\ last'.caller = basket.authority
        /\ last'.args.amount <= lamports[BASKET])
       => /\ last'.res = "Ok"
          /\ lamports'[BASKET] = lamports[BASKET] - last'.args.amount
    /\ (Returns("set_paused") /\ last'.caller = basket.authority)
       => /\ last'.res = "Ok"
          /\ basket'.paused = last'.args.paused

C8_PausedStep ==
    /\ (pc = "idle" /\ basket.paused)
       => /\ last'.op \in {"deposit", "redeem"}
             => last'.res = "ProgramPaused" /\ UNCHANGED accounts
          /\ last'.op \in {"add_token", "remove_token"}
             => /\ last'.res = IF last'.caller = basket.authority
                               THEN "ProgramPaused" ELSE "Unauthorized"
                /\ UNCHANGED accounts
          /\ C8_UngatedStep
    /\ (pc' = "idle" /\ last'.res = "ProgramPaused")
       => Pre.basket.paused /\ last'.op \in PauseGated

C8_PauseGatesFour == [][C8_PausedStep]_vars

C8_Witness ==
    /\ pc = "idle"
    /\ basket.paused
    /\ last.op = "withdraw_authority_sol"
    /\ last.res = "Ok"
    /\ last.args.amount = MINIMUM_DEPOSIT

\* C8 (as claimed): while paused, every deposit, redeem, add_token and
\* remove_token returns ProgramPaused.
C8_EveryGatedCallReturnsProgramPaused ==
    [][(pc = "idle" /\ basket.paused /\ last'.op \in PauseGated)
       => last'.res = "ProgramPaused"]_vars

\* C9: once the record exists, add_token, remove_token, set_paused and
\* withdraw_authority_sol by a caller other than the stored authority return
\* Unauthorized and change no account, paused or not.
AuthorityOnly ==
    {"add_token", "remove_token", "set_paused", "withdraw_authority_sol"}

C9_UnauthorizedStep ==
    (/\ pc = "idle"
     /\ basket.initialized
     /\ last'.op \in AuthorityOnly
     /\ last'.caller # basket.authority)
    => /\ last'.res = "Unauthorized"
       /\ UNCHANGED accounts

C9_OnlyAuthority == [][C9_UnauthorizedStep]_vars

C9_Witness ==
    /\ pc = "idle"
    /\ basket.paused
    /\ last.op = "withdraw_authority_sol"
    /\ last.caller # basket.authority
    /\ last.res = "Unauthorized"
    /\ lamports[BASKET] >= last.args.amount

\* C11: a deposit that returns Ok has taken exactly amount lamports from the
\* caller, has put them into the vault (whose balance rises by amount plus
\* what the venue added over the legs, and by exactly amount when there is no
\* constituent), has credited exactly amount claim tokens to the caller and
\* nobody else, and has raised total_supply by exactly amount, whatever the
\* registry's weights and the vault's holdings are.
C11_DepositStep ==
    (Returns("deposit") /\ last'.res = "Ok")
    => /\ lamports'[last'.caller]
            = Pre.lamports[last'.caller] - last'.args.amount
       /\ lamports'[BASKET] >= Pre.lamports[BASKET] + last'.args.amount
       /\ Len(basket'.tokens) = 0
          => lamports'[BASKET] = Pre.lamports[BASKET] + last'.args.amount
       /\ claim' = [Pre.claim EXCEPT ![last'.caller] = @ + last'.args.amount]
       /\ mint_supply' = Pre.mint_supply + last'.args.amount
       /\ basket'.total_supply = Pre.basket.total_supply + last'.args.amount

C11_DepositOneToOne == [][C11_DepositStep]_vars

C11_Witness ==
    /\ pc = "idle"
    /\ last.op = "deposit"
    /\ last.res = "Ok"
    /\ SumWeights(basket.tokens) = 50
    /\ basket.total_supply = 2 * MINIMUM_DEPOSIT
    /\ claim[last.caller] = MINIMUM_DEPOSIT
    /\ lamports[BASKET] > MINIMUM_DEPOSIT

\* The number of minimums a deposit was given, from what `last` keeps of it.
NumMins(args) == IF "mins" \in DOMAIN args THEN Len(args.mins) ELSE args.nmins

\* A deposit entered from idle on an initialized, unpaused vault, with the right
\* number of minimums and of accounts, the right custody account in every
\* block, a caller who has the lamports, and room in the 64-bit supply.
DepositWellFormed ==
    /\ pc = "idle"
    /\ last'.op = "deposit"
    /\ basket.initialized
    /\ ~basket.paused
    /\ NumMins(last'.args) = Len(basket.tokens)
    /\ last'.args.nacc = RightNacc
    /\ "accts" \in DOMAIN last'.args => last'.args.accts = RightAccts
    /\ lamports[last'.caller] >= last'.args.amount
    /\ basket.total_supply + last'.args.amount <= U64_MAX

\* The venue has returned and the leg's measured increase meets its minimum.
DepositLegMet ==
    /\ pc = "returned"
    /\ cur.op = "deposit"
    /\ cur.args.accts = RightAccts
    /\ lamports[BASKET] >= cur.initial_lamports
    /\ lamports[BASKET] - cur.initial_lamports >= cur.args.mins[cur.i]

\* C12: on an initialized, unpaused vault a deposit of less than
\* MINIMUM_DEPOSIT returns InsufficientDeposit and changes no account; a
\* well-formed deposit of exactly MINIMUM_DEPOSIT is handed to the venue for
\* its first leg (or returns Ok at once when there is no constituent), goes
\* on to the next leg each time a leg meets its minimum, and returns Ok after
\* the last one.
C12_FloorStep ==
    /\ (/\ pc = "idle"
        /\ last'.op = "deposit"
        /\ basket.initialized
        /\ ~basket.paused
        /\ last'.args.amount < MINIMUM_DEPOSIT)
       => /\ last'.res = "InsufficientDeposit"
          /\ pc' = "idle"
          /\ UNCHANGED accounts
    /\ (DepositWellFormed /\ last'.args.amount = MINIMUM_DEPOSIT)
       => IF Len(basket.tokens) = 0
          THEN pc' = "idle" /\ last'.res = "Ok"
          ELSE pc' = "venue" /\ cur'.i = 1
    /\ (DepositLegMet /\ cur.args.amount = MINIMUM_DEPOSIT)
       => IF cur.i = Len(basket.tokens)
          THEN Returns("deposit") /\ last'.res = "Ok"
          ELSE pc' = "venue" /\ cur'.i = cur.i + 1

C12_MinimumDepositBoundary == [][C12_FloorStep]_vars

C12_Witness ==
    /\ pc = "idle"
    /\ last.op = "deposit"
    /\ last.res = "InsufficientDeposit"
    /\ last.args.amount = MINIMUM_DEPOSIT - 1
    /\ lamports[last.caller] >= MINIMUM_DEPOSIT
    /\ last.args.nmins = Len(basket.tokens)
    /\ last.args.nacc = RightNacc

\* C13: on an initialized, unpaused vault a redeem given the right number of
\* accounts returns MathOverflow whenever amount exceeds total_supply or
\* total_supply is zero (whatever the amount, zero included); it burns nothing,
\* hands nothing to the venue and leaves total_supply and every other account
\* as they were.
C13_RedeemStep ==
    (/\ pc = "idle"
     /\ last'.op = "redeem"
     /\ basket.initialized
     /\ ~basket.paused
     /\ last'.args.nacc = RightNacc
     /\ \/ last'.args.amount > basket.total_supply
        \/ basket.total_supply = 0)
    => /\ last'.res = "MathOverflow"
       /\ pc' = "idle"
       /\ UNCHANGED accounts

C13_RedeemBeyondSupply == [][C13_RedeemStep]_vars

C13_Witness ==
    /\ pc = "idle"
    /\ last.op = "redeem"
    /\ last.res = "MathOverflow"
    /\ last.args.amount = 0
    /\ basket.total_supply = 0
    /\ ~basket.paused
    /\ Len(basket.tokens) = 2

\* C14 (as claimed): a redeem of a positive amount the caller holds, on an
\* unpaused vault with at least one constituent and well-formed blocks, hands
\* its first leg to the venue with redemption_ratio equal to
\* floor(amount * MAGNIFIER / total_supply), the supply being the one before
\* the decrement, and with an input quantity equal to
\* floor(held * redemption_ratio / MAGNIFIER), held being the balance of the
\* constituent's custody account.
C14_RedeemLegQuantity ==
    [][(/\ pc = "idle"
        /\ last'.op = "redeem"
        /\ basket.initialized
        /\ ~basket.paused
        /\ Len(basket.tokens) >= 1
        /\ last'.args.amount > 0
        /\ last'.args.amount <= claim[last'.caller]
        /\ last'.args.nacc = RightNacc
        /\ "accts" \in DOMAIN last'.args => last'.args.accts = RightAccts)
       => /\ pc' = "venue"
          /\ cur'.redemption_ratio
               = MulDiv(last'.args.amount, MAGNIFIER, basket.total_supply)
          /\ cur'.in_amount
               = MulDiv(custody[RightAccts[1]], cur'.redemption_ratio, MAGNIFIER)]_vars

\* A deposit or redeem entered from idle that passes the checks made before
\* the lock is set.
PassesEntryChecks ==
    /\ pc = "idle"
    /\ last'.op \in {"deposit", "redeem"}
    /\ basket.initialized
    /\ ~basket.paused
    /\ last'.op = "deposit"
       => /\ last'.args.amount >= MINIMUM_DEPOSIT
          /\ NumMins(last'.args) = Len(basket.tokens)

\* C15: with N constituents, a deposit or redeem that passes its entry checks
\* and is given any number of trailing accounts other than N * 12 returns
\* InvalidAccountCount with no transfer, mint, burn or venue call made and no
\* account changed; InvalidAccountCount is returned for no other reason.
C15_AccountCountStep ==
    /\ (PassesEntryChecks /\ last'.args.nacc # Len(basket.tokens) * ACCOUNTS_PER_LEG)
       => /\ last'.res = "InvalidAccountCount"
          /\ pc' = "idle"
          /\ UNCHANGED accounts
    /\ (pc' = "idle" /\ last'.res = "InvalidAccountCount")
       => /\ PassesEntryChecks
          /\ last'.args.nacc # Len(basket.tokens) * ACCOUNTS_PER_LEG

C15_ExactAccountCount == [][C15_AccountCountStep]_vars

C15_Witness ==
    /\ pc = "idle"
    /\ last.op = "redeem"
    /\ last.res = "InvalidAccountCount"
    /\ Len(basket.tokens) = 2
    /\ last.args.nacc = 2 * ACCOUNTS_PER_LEG + 1
    /\ last.args.amount = MINIMUM_DEPOSIT
    /\ claim[last.caller] = MINIMUM_DEPOSIT

\* C16: on an initialized, unpaused vault a deposit of at least
\* MINIMUM_DEPOSIT whose number of minimums differs from the number of
\* constituents returns InvalidTokenCount with the lock never taken and with
\* no transfer, mint or venue call made; InvalidTokenCount is returned for no
\* other reason.
C16_TokenCountStep ==
    /\ (/\ pc = "idle"
        /\ last'.op = "deposit"
        /\ basket.initialized
        /\ ~basket.paused
        /\ last'.args.amount >= MINIMUM_DEPOSIT
        /\ NumMins(last'.args) # Len(basket.tokens))
       => /\ last'.res = "InvalidTokenCount"
          /\ ~last'.lock
          /\ pc' = "idle"
          /\ UNCHANGED accounts
    /\ (pc' = "idle" /\ last'.res = "InvalidTokenCount")
       => /\ pc = "idle"
          /\ last'.op = "deposit"
          /\ NumMins(last'.args) # Len(basket.tokens)

C16_MinimumsLengthBeforeLock == [][C16_TokenCountStep]_vars

C16_Witness ==
    /\ pc = "idle"
    /\ last.op = "deposit"
    /\ last.res = "InvalidTokenCount"
    /\ ~last.lock
    /\ Len(basket.tokens) = 1
    /\ last.args.nmins = 2
    /\ last.args.nacc = RightNacc
    /\ lamports[last.caller] >= last.args.amount

\* C17: the mints of the registry entries are pairwise distinct in every
\* reachable state; an add_token of a mint already in the registry returns an
\* error (DuplicateToken when no earlier check fails) and leaves the registry
\* unchanged.
DistinctMints(tokens) ==
    \A i, j \in 1..Len(tokens) : tokens[i].mint = tokens[j].mint => i = j

C17_DuplicateStep ==
    (/\ pc = "idle"
     /\ last'.op = "add_token"
     /\ HasMint(basket.tokens, last'.args.token_mint))
    => /\ last'.res # "Ok"
       /\ basket'.tokens = basket.tokens
       /\ (/\ last'.caller = basket.authority
           /\ ~basket.paused
           /\ Len(basket.tokens) < basket.max_tokens
           /\ SumWeights(basket.tokens) + last'.args.weight <= 100)
          => last'.res = "DuplicateToken"

C17_MintsDistinct ==
    /\ [](DistinctMints(basket.tokens))
    /\ [][C17_DuplicateStep]_vars

C17_Witness ==
    /\ pc = "idle"
    /\ last.op = "add_token"
    /\ last.res = "DuplicateToken"
    /\ HasMint(basket.tokens, last.args.token_mint)
    /\ Len(basket.tokens) = 1

\* C18: Len(tokens) <= max_tokens <= MAX_TOKENS in every reachable state; an
\* initialize of a record not yet created with max_tokens above MAX_TOKENS
\* returns TooManyTokens and creates nothing; an add_token on a full registry
\* returns an error (TooManyTokens when the caller is the authority and the
\* vault is not paused) and leaves the registry unchanged.
C18_CapacityStep ==
    /\ (/\ pc = "idle"
        /\ last'.op = "initialize"
        /\ ~basket.initialized
        /\ last'.args.max_tokens > MAX_TOKENS)
       => /\ last'.res = "TooManyTokens"
          /\ UNCHANGED accounts
    /\ (/\ pc = "idle"
        /\ last'.op = "add_token"
        /\ basket.initialized
        /\ Len(basket.tokens) = basket.max_tokens)
       => /\ last'.res # "Ok"
          /\ basket'.tokens = basket.tokens
          /\ (last'.caller = basket.authority /\ ~basket.paused)
             => last'.res = "TooManyTokens"

C18_Capacity ==
    /\ [](/\ Len(basket.tokens) <= basket.max_tokens
          /\ basket.max_tokens <= MAX_TOKENS)
    /\ [][C18_CapacityStep]_vars

C18_Witness ==
    /\ pc = "idle"
    /\ last.op = "add_token"
    /\ last.res = "TooManyTokens"
    /\ basket.max_tokens = 2
    /\ Len(basket.tokens) = 2

\* C19: a withdraw_authority_sol by the authority, whether the vault is paused
\* or not and whether the lock is held or not, returns InsufficientBalance and
\* changes nothing when amount exceeds the vault's lamports, and otherwise
\* returns Ok having moved exactly amount lamports from the vault to the
\* authority and nothing else: the record, total_supply included, the claim
\* tokens and the custody balances are as before.
Withdrawals == {"withdraw_authority_sol", "nested_withdraw_authority_sol"}

C19_WithdrawStep ==
    (/\ pc' = pc
     /\ last'.op \in Withdrawals
     /\ basket.initialized
     /\ last'.caller = basket.authority)
    => /\ basket' = basket
       /\ UNCHANGED <<claim, mint_supply, custody>>
       /\ IF last'.args.amount > lamports[BASKET]
          THEN last'.res = "InsufficientBalance" /\ lamports' = lamports
          ELSE /\ last'.res = "Ok"
               /\ lamports' =
                     [lamports EXCEPT ![BASKET] = @ - last'.args.amount,
                                      ![last'.caller] = @ + last'.args.amount]

C19_AuthorityWithdraw == [][C19_WithdrawStep]_vars

C19_Witness ==
    /\ pc = "venue"
    /\ basket.reentrancy_guard
    /\ last.op = "nested_withdraw_authority_sol"
    /\ last.res = "Ok"
    /\ last.args.amount = MINIMUM_DEPOSIT
    /\ lamports[last.caller] >= MINIMUM_DEPOSIT
    /\ basket.total_supply > 0

\* C20: total_supply differs after a handler from what it was before it only
\* for a deposit or redeem that returned Ok (and changes in flight only inside
\* deposit and redeem); tokens changes only in an add_token or remove_token
\* that returned Ok; paused changes only in a set_paused that returned Ok;
\* authority and max_tokens are written by the initialize that creates the
\* record and never change afterwards.
C20_FrameStep ==
    /\ basket'.total_supply # basket.total_supply
       => last'.op \in {"deposit", "redeem"}
    /\ (pc' = "idle" /\ basket'.total_supply # Pre.basket.total_supply)
       => last'.op \in {"deposit", "redeem"} /\ last'.res = "Ok"
    /\ basket'.tokens # basket.tokens
       => /\ last'.op \in {"add_token", "remove_token"}
          /\ last'.res = "Ok"
          /\ pc' = "idle"
    /\ basket'.paused # basket.paused
       => /\ last'.op = "set_paused"
          /\ last'.res = "Ok"
          /\ pc' = "idle"
    /\ (\/ basket'.authority # basket.authority
        \/ basket'.max_tokens # basket.max_tokens
        \/ basket'.initialized # basket.initialized)
       => /\ ~basket.initialized
          /\ last'.op = "initialize"
          /\ last'.res = "Ok"

C20_FieldWriters == [][C20_FrameStep]_vars

C20_Witness ==
    /\ pc = "idle"
    /\ last.op = "withdraw_authority_sol"
    /\ last.res = "Ok"
    /\ basket.paused
    /\ basket.total_supply = 2 * MINIMUM_DEPOSIT
    /\ Len(basket.tokens) = 2
    /\ lamports[BASKET] < MINIMUM_DEPOSIT

\* C21: a remove_token by the authority on an unpaused vault returns
\* TokenNotFound and changes nothing when no entry has the mint; otherwise it
\* returns Ok and the registry is the old one without that one entry, the
\* others in their previous order, the weight sum lower by the removed weight,
\* and every balance, the custody balance of the removed constituent
\* included, as it was.
WithoutMint(tokens, m) ==
    LET Other(t) == t.mint # m IN SelectSeq(tokens, Other)

C21_RemoveStep ==
    (/\ pc = "idle"
     /\ last'.op = "remove_token"
     /\ basket.initialized
     /\ last'.caller = basket.authority
     /\ ~basket.paused)
    => IF ~HasMint(basket.tokens, last'.args.token_mint)
       THEN last'.res = "TokenNotFound" /\ UNCHANGED accounts
       ELSE /\ last'.res = "Ok"
            /\ basket' = [basket EXCEPT !.tokens =
                             WithoutMint(@, last'.args.token_mint)]
            /\ Len(basket'.tokens) = Len(basket.tokens) - 1
            /\ SumWeights(basket'.tokens)
                 = SumWeights(basket.tokens)
                   - basket.tokens[Position(basket.tokens,
                                            last'.args.token_mint)].weight
            /\ UNCHANGED <<lamports, claim, mint_supply, custody>>

C22_InitializeStep ==
    /\ (pc = "idle" /\ last'.op = "initialize")
       => IF basket.initialized
          THEN last'.res = "AccountAlreadyInUse" /\ UNCHANGED accounts
          ELSE /\ last'.res = "Ok" <=> last'.args.max_tokens <= MAX_TOKENS
               /\ last'.res = "Ok"
                  => basket' = [initialized |-> TRUE,
                                authority |-> last'.caller,
                                tokens |-> <<>>,
                                total_supply |-> 0,
                                max_tokens |-> last'.args.max_tokens,
                                paused |-> FALSE,
                                reentrancy_guard |-> FALSE]
               /\ last'.res # "Ok" => basket' = basket
               /\ UNCHANGED <<lamports, claim, mint_supply, custody>>
    /\ basket.initialized => basket'.initialized

C22_InitializeOnce == [][C22_InitializeStep]_vars

C22_Witness ==
    /\ pc = "idle"
    /\ last.op = "initialize"
    /\ last.res = "AccountAlreadyInUse"
    /\ last.args.max_tokens = 2
    /\ basket.total_supply > 0
    /\ Len(basket.tokens) = 2
    /\ basket.paused

\* C23: a deposit of more lamports than the caller has returns an error
\* (InsufficientFunds, from the transfer, when it passes the checks made
\* before the transfer) without reaching the venue, and no claim token is
\* minted and total_supply, the vault's lamports and every other account are
\* as before.
C23_InsufficientStep ==
    (/\ pc = "idle"
     /\ last'.op = "deposit"
     /\ last'.args.amount > lamports[last'.caller])
    => /\ last'.res # "Ok"
       /\ pc' = "idle"
       /\ UNCHANGED accounts
       /\ (PassesEntryChecks /\ last'.args.nacc = RightNacc)
          => last'.res = "InsufficientFunds"

C23_DepositBeyondBalance == [][C23_InsufficientStep]_vars

C23_Witness ==
    /\ pc = "idle"
    /\ last.op = "deposit"
    /\ last.res = "InsufficientFunds"
    /\ last.args.amount = MINIMUM_DEPOSIT
    /\ lamports[last.caller] < MINIMUM_DEPOSIT
    /\ lamports[BASKET] >= MINIMUM_DEPOSIT
    /\ Len(basket.tokens) = 1

\* C24 (as claimed): when the venue has returned from a deposit leg, the leg
\* passes (the deposit returns neither SlippageExceeded nor MathOverflow from
\* it) exactly when the balance of the leg's custody account, less the balance
\* read before the venue call, is at least the leg's minimum.
C24_LegMeasuresCustody ==
    [][(pc = "returned" /\ cur.op = "deposit")
       => (last'.res \notin {"SlippageExceeded", "MathOverflow"}
           <=> custody[cur.args.accts[cur.i]] - cur.in_amount
                 >= cur.args.mins[cur.i])]_vars

\* C25 (as claimed): whenever a deposit or redeem has returned, with Ok or
\* with an error, the lock as the handler itself left it is clear.
C25_HandlerClearsLock ==
    (pc = "idle" /\ last.op \in {"deposit", "redeem"}) => ~last.lock

\* C26: while a venue call of a deposit or redeem is in progress, the recorded
\* supply, the claim-token supply and the caller's claim tokens already differ
\* from their values at the operation's entry by the operation's amount
\* (added by deposit, subtracted by redeem).
C26_EffectsBeforeVenue ==
    pc = "venue" =>
        LET d == IF cur.op = "deposit" THEN cur.args.amount ELSE 0 - cur.args.amount
        IN /\ cur.op \in {"deposit", "redeem"}
           /\ basket.total_supply = saved.basket.total_supply + d
           /\ mint_supply = saved.mint_supply + d
           /\ claim[cur.caller] = saved.claim[cur.caller] + d

C26_Witness ==
    /\ pc = "venue"
    /\ cur.op = "deposit"
    /\ cur.i = 1
    /\ saved.basket.total_supply > 0
    /\ basket.total_supply = saved.basket.total_supply + cur.args.amount

\* C27: a deposit that passes the checks made before the addition (entry
\* checks, account count, the caller has the lamports) and whose amount added
\* to total_supply exceeds the 64-bit maximum returns MathOverflow, and
\* total_supply, the claim-token supply, the caller's lamports and every other
\* account are as before; no deposit, however it returns, leaves total_supply
\* lower than it was at its entry, and total_supply stays within 64 bits.
C27_OverflowStep ==
    /\ (/\ PassesEntryChecks
        /\ last'.op = "deposit"
        /\ last'.args.nacc = RightNacc
        /\ lamports[last'.caller] >= last'.args.amount
        /\ basket.total_supply + last'.args.amount > U64_MAX)
       => /\ last'.res = "MathOverflow"
          /\ pc' = "idle"
          /\ UNCHANGED accounts
    /\ Returns("deposit") => basket'.total_supply >= Pre.basket.total_supply
    /\ basket'.total_supply <= U64_MAX

C27_DepositOverflow == [][C27_OverflowStep]_vars

C27_Witness ==
    /\ pc = "idle"
    /\ last.op = "deposit"
    /\ last.res = "MathOverflow"
    /\ lamports[last.caller] >= last.args.amount
    /\ basket.total_supply > 0
    /\ basket.total_supply + last.args.amount > U64_MAX

\* C28: when a redeem returns Ok, the vault's lamports equal their value
\* at the start of the leg loop and the caller has received exactly what the
\* vault gained over the legs (nothing when there was no leg), so none of the
\* lamports the vault held beforehand; when the venue has returned from a
\* redeem leg and the vault's lamports are below the value at the start of
\* the loop plus the total received so far, the redeem returns MathOverflow.
C28_PayoutStep ==
    /\ (Returns("redeem") /\ last'.res = "Ok")
       => LET start == IF pc = "idle" THEN lamports[BASKET]
                       ELSE cur.initial_lamports
          IN /\ lamports'[BASKET] = start
             /\ lamports'[last'.caller]
                  = lamports[last'.caller] + (lamports[BASKET] - start)
    /\ (/\ pc = "returned"
        /\ cur.op = "redeem"
        /\ lamports[BASKET] < cur.initial_lamports + cur.total_sol_received)
       => Returns("redeem") /\ last'.res = "MathOverflow"

C28_RedeemLeavesVaultBalance == [][C28_PayoutStep]_vars

C28_Witness ==
    /\ pc = "idle"
    /\ last.op = "redeem"
    /\ last.res = "Ok"
    /\ last.args.amount = 2 * MINIMUM_DEPOSIT
    /\ lamports[BASKET] >= MINIMUM_DEPOSIT
    /\ lamports[last.caller] = 0

\* A redeem entered from idle that got past the ratio, the supply update and
\* the burn, and so to its leg loop.
RedeemReachesLegLoop ==
    /\ pc = "idle"
    /\ last'.op = "redeem"
    /\ redeem_checks = "Ok"
    /\ redeem_effects_result(last'.caller, last'.args.amount, last'.args.nacc) = "Ok"

\* Holds: the ratio of a redeem that reaches its leg loop is at most MAGNIFIER.
RedeemRatioBounded ==
    [][RedeemReachesLegLoop
       => MulDiv(last'.args.amount, MAGNIFIER, basket.total_supply) <= MAGNIFIER]_vars

C30_EmptyRedeemStep ==
    (/\ pc = "idle"
     /\ last'.op = "redeem"
     /\ basket.initialized
     /\ ~basket.paused
     /\ Len(basket.tokens) = 0
     /\ last'.args.nacc = 0
     /\ basket.total_supply > 0
     /\ last'.args.amount <= basket.total_supply
     /\ last'.args.amount <= claim[last'.caller])
    => /\ pc' = "idle"
       /\ last'.res = "Ok" <=> last'.args.minimum_sol_amount = 0
       /\ last'.res = "Ok"
          => /\ claim' = [claim EXCEPT ![last'.caller] = @ - last'.args.amount]
             /\ mint_supply' = mint_supply - last'.args.amount
             /\ basket' = [basket EXCEPT !.total_supply = @ - last'.args.amount]
             /\ UNCHANGED <<lamports, custody>>
       /\ last'.res # "Ok"
          => /\ last'.res = "SlippageExceeded"
             /\ UNCHANGED accounts

C30_EmptyListRedeem == [][C30_EmptyRedeemStep]_vars

C30_Witness ==
    /\ pc = "idle"
    /\ last.op = "redeem"
    /\ last.res = "Ok"
    /\ last.args.amount = MINIMUM_DEPOSIT
    /\ Len(basket.tokens) = 0
    /\ custody["custodyA"] >= 1
    /\ lamports[BASKET] >= MINIMUM_DEPOSIT

\* C10: the stored lock is false whenever no deposit or redeem is in flight,
\* whatever the earlier ones returned, and no deposit or redeem invoked from
\* outside is ever rejected with ReentrancyDetected.
C10_LockClearBetweenOperations ==
    /\ pc = "idle" => ~basket.reentrancy_guard
    /\ basket.reentrancy_guard => pc \in {"venue", "returned"}
    /\ last.op \in {"deposit", "redeem"} => last.res # "ReentrancyDetected"

C10_Witness ==
    /\ pc = "idle"
    /\ last.op = "deposit"
    /\ last.res = "SlippageExceeded"
    /\ last.lock
    /\ ~basket.reentrancy_guard

=============================================================================
